---------------------------- MODULE Spec2Model ----------------------------
(***************************************************************************)
(* State-machine model of bluepy-helper.c: the single-connection BLE GATT  *)
(* client engine driven by a textual command stream.                       *)
(*                                                                         *)
(* A command-line token is a sequence of one-character strings, so that    *)
(* the parsers (strtoll, strcasecmp, ...) are computed character by        *)
(* character.  A response line is the sequence of the blank-separated      *)
(* items printf writes, e.g. <<"rsp=$err", "code=$badstate">>.             *)
(***************************************************************************)
EXTENDS Integers, Sequences, FiniteSets, TLC

(***************************************************************************)
(* Bounds of the model.                                                    *)
(***************************************************************************)
\* number of link attempts (gatt_connect calls) explored
MaxConnects == 2
\* number of GATT completion callbacks that may be outstanding at once
MaxPending == 1

(***************************************************************************)
(* Program constants.                                                      *)
(***************************************************************************)
ATT_DEFAULT_LE_MTU == 23
ATT_CID == 4
EINVAL == 22
NULL == 0

STATE_DISCONNECTED == "STATE_DISCONNECTED"
STATE_CONNECTING == "STATE_CONNECTING"
STATE_CONNECTED == "STATE_CONNECTED"

err_CONN_FAIL == "connfail"
err_COMM_ERR == "comerr"
err_PROTO_ERR == "protoerr"
err_BAD_CMD == "badcmd"
err_BAD_PARAM == "badparam"
err_BAD_STATE == "badstate"

rsp_ERROR == "err"
rsp_STATUS == "stat"
rsp_NOTIFY == "ntfy"
rsp_IND == "ind"
rsp_DISCOVERY == "find"
rsp_DESCRIPTORS == "desc"
rsp_READ == "rd"
rsp_WRITE == "wr"

\* ATT opcodes and error codes (attrib/att.h)
ATT_OP_ERROR == 1
ATT_OP_FIND_INFO_REQ == 4
ATT_OP_FIND_BY_TYPE_REQ == 6
ATT_OP_READ_BY_TYPE_REQ == 8
ATT_OP_READ_REQ == 10
ATT_OP_READ_BLOB_REQ == 12
ATT_OP_READ_MULTI_REQ == 14
ATT_OP_READ_BY_GROUP_REQ == 16
ATT_OP_WRITE_REQ == 18
ATT_OP_PREP_WRITE_REQ == 22
ATT_OP_EXEC_WRITE_REQ == 24
ATT_OP_HANDLE_NOTIFY == 27
ATT_OP_HANDLE_IND == 29
ATT_OP_HANDLE_CNF == 30
ATT_OP_WRITE_CMD == 82
ATT_OP_SIGNED_WRITE_CMD == 210
ATT_ECODE_REQ_NOT_SUPP == 6

(***************************************************************************)
(* C integer conversions.                                                  *)
(*                                                                         *)
(* The tokens of the model have at most seven hexadecimal digits, so every  *)
(* value strtoll returns lies in the range of int and the conversion from  *)
(* long long to int changes nothing.                                       *)
(***************************************************************************)
TwoTo16 == 65536
INT_MAX == 2147483647

\* conversion to uint16_t
ToUint16(v) == v % TwoTo16

\* conversion to uint8_t
ToUint8(v) == v % 256

MIN(a, b) == IF a < b THEN a ELSE b

(***************************************************************************)
(* Characters.                                                             *)
(***************************************************************************)
HexDigits == <<"0","1","2","3","4","5","6","7","8","9","A","B","C","D","E","F">>

IsHexChar(c) ==
    c \in {"0","1","2","3","4","5","6","7","8","9",
           "a","b","c","d","e","f","A","B","C","D","E","F"}

HexVal(c) ==
    CASE c = "0" -> 0 [] c = "1" -> 1 [] c = "2" -> 2 [] c = "3" -> 3
      [] c = "4" -> 4 [] c = "5" -> 5 [] c = "6" -> 6 [] c = "7" -> 7
      [] c = "8" -> 8 [] c = "9" -> 9
      [] c \in {"a","A"} -> 10 [] c \in {"b","B"} -> 11
      [] c \in {"c","C"} -> 12 [] c \in {"d","D"} -> 13
      [] c \in {"e","E"} -> 14 [] c \in {"f","F"} -> 15

\* tolower() on the characters that occur in command keywords and arguments
ToLower(c) ==
    CASE c = "A" -> "a" [] c = "B" -> "b" [] c = "C" -> "c" [] c = "D" -> "d"
      [] c = "E" -> "e" [] c = "F" -> "f" [] c = "G" -> "g" [] c = "H" -> "h"
      [] c = "I" -> "i" [] c = "R" -> "r" [] c = "S" -> "s" [] c = "T" -> "t"
      [] OTHER -> c

\* strcasecmp(a, b) == 0
strcasecmp_eq(a, b) ==
    /\ Len(a) = Len(b)
    /\ \A i \in 1..Len(a) : ToLower(a[i]) = ToLower(b[i])

\* the C string as printf("%s") writes it
RECURSIVE Str(_)
Str(s) == IF s = <<>> THEN "" ELSE s[1] \o Str(Tail(s))

\* printf("%X") of an unsigned int
RECURSIVE FormatHex(_)
FormatHex(n) ==
    IF n < 16 THEN HexDigits[n + 1]
    ELSE FormatHex(n \div 16) \o HexDigits[(n % 16) + 1]

\* four hexadecimal digits, zero padded
FormatHex4(n) ==
    HexDigits[(n \div 4096) + 1] \o HexDigits[((n \div 256) % 16) + 1]
        \o HexDigits[((n \div 16) % 16) + 1] \o HexDigits[(n % 16) + 1]

\* printf("%X") of an int passed where unsigned int is expected: a negative
\* value prints as its two's complement, v + 2^32
FormatHexUnsigned(v) ==
    IF v >= 0 THEN FormatHex(v)
    ELSE LET w == (v + INT_MAX) + 1
         IN  FormatHex((w \div TwoTo16) + 32768) \o FormatHex4(w % TwoTo16)

\* printf("%02X") of one byte
FormatByte(b) == HexDigits[(b \div 16) + 1] \o HexDigits[(b % 16) + 1]

(***************************************************************************)
(* Response encoder.                                                       *)
(***************************************************************************)
resp_begin(rsptype) == <<"rsp=$" \o rsptype>>

send_sym(tag, val) == tag \o "=$" \o val

send_uint(tag, val) == tag \o "=h" \o FormatHexUnsigned(val)

send_str(tag, val) == tag \o "='" \o val

RECURSIVE HexBytes(_)
HexBytes(bytes) ==
    IF bytes = <<>> THEN "" ELSE FormatByte(bytes[1]) \o HexBytes(Tail(bytes))

send_data(bytes) == "d=b" \o HexBytes(bytes)

resp_error(errcode) == resp_begin(rsp_ERROR) \o <<send_sym("code", errcode)>>

(***************************************************************************)
(* Argument parsers.                                                       *)
(***************************************************************************)
RECURSIVE SkipSpace(_, _)
SkipSpace(s, i) ==
    IF i <= Len(s) /\ s[i] = " " THEN SkipSpace(s, i + 1) ELSE i

\* the digits of s from position i on: [val, end], end the first position
\* that is not a hexadecimal digit
RECURSIVE HexRun(_, _, _)
HexRun(s, i, acc) ==
    IF i <= Len(s) /\ IsHexChar(s[i])
    THEN HexRun(s, i + 1, acc * 16 + HexVal(s[i]))
    ELSE [val |-> acc, end |-> i]

\* strtoll(s, &e, 16): [val, end], end the position e points at (Len(s) + 1
\* is the terminating NUL).  Blanks are skipped, then a sign and a 0x prefix
\* are accepted; without any digit the value is 0 and e is s itself.
strtoll16(s) ==
    LET i0 == SkipSpace(s, 1)
        signed == i0 <= Len(s) /\ s[i0] \in {"-", "+"}
        neg == i0 <= Len(s) /\ s[i0] = "-"
        i1 == IF signed THEN i0 + 1 ELSE i0
        prefix == /\ i1 + 2 <= Len(s)
                  /\ s[i1] = "0"
                  /\ s[i1 + 1] \in {"x", "X"}
                  /\ IsHexChar(s[i1 + 2])
        i2 == IF prefix THEN i1 + 2 ELSE i1
        run == HexRun(s, i2, 0)
    IN  IF run.end = i2 THEN [val |-> 0, end |-> 1]
        ELSE [val |-> IF neg THEN 0 - run.val ELSE run.val, end |-> run.end]

\* strtohandle(src): the handle, or -EINVAL when src is not wholly a number
strtohandle(src) ==
    LET r == strtoll16(src)
    IN  IF r.end <= Len(src) THEN 0 - EINVAL ELSE r.val

\* gatt_attr_data_from_string(str, &value): strlen(str) / 2 bytes, each the
\* strtol of two characters; the length returned is Len of the result
gatt_attr_data_from_string(str) ==
    [i \in 1..(Len(str) \div 2) |->
        ToUint8(strtoll16(<<str[2 * i - 1], str[2 * i]>>).val)]

\* bt_string_to_uuid(&uuid, str) >= 0: a 128-bit UUID in its dashed form, or
\* four or six characters that strtol reads to the end
bt_string_to_uuid_ok(str) ==
    \/ /\ Len(str) = 36
       /\ \A i \in 1..36 :
             IF i \in {9, 14, 19, 24} THEN str[i] = "-" ELSE IsHexChar(str[i])
    \/ /\ Len(str) \in {4, 6}
       /\ strtoll16(str).end = Len(str) + 1

(***************************************************************************)
(* State.                                                                  *)
(*                                                                         *)
(* A pointer to a string is a sequence of length at most one: <<>> is the  *)
(* null pointer, <<s>> points at the string s.  A channel or a GAttrib is  *)
(* the number of the link attempt that created it, NULL when absent.       *)
(***************************************************************************)
VARIABLES
    conn_state,     \* enum state conn_state
    iochannel,      \* GIOChannel *iochannel
    attrib,         \* GAttrib *attrib
    att_buflen,     \* the length of attrib's buffer (g_attrib_get_buffer)
    opt_dst,        \* gchar *opt_dst
    opt_dst_type,   \* gchar *opt_dst_type
    opt_sec_level,  \* gchar *opt_sec_level
    opt_mtu,        \* int opt_mtu
    connecting,     \* channels whose connect_cb has not been delivered yet
    watchers,       \* channels with a channel_watcher attached
    pending,        \* the GATT completion callbacks not delivered yet
    nconn,          \* the number of gatt_connect calls made so far
    chan_imtu,      \* per gatt_connect call, the MTU it was asked for
    mtu_cmd,        \* history: "accepted" once cmd_mtu has issued an exchange,
                    \* "relinked" when a link-up completion followed it,
                    \* "none" from every arrival in the disconnected state
    linkup_mtu,     \* history: the MTU the last link-up of the connection
                    \* stored, 0 in the disconnected state and before one
    last_peer,      \* history: <<address, type>> of the last conn that was
                    \* dispatched in the disconnected state with an address,
                    \* <<>> before the first one
    pc,             \* main: "poll" (the loop waits for an event),
                    \* "dispatched" (a handler has just returned), "quit"
                    \* (the loop was left), "done", "aborted"
    stdin_watch,    \* whether prompt_read is still attached to stdin
    out,            \* the response lines the last step wrote
    calls,          \* the library calls the last step made
    ev              \* the last step: what ran, its inputs, the state before

vars == <<conn_state, iochannel, attrib, att_buflen, opt_dst, opt_dst_type,
          opt_sec_level, opt_mtu, connecting, watchers, pending, nconn,
          chan_imtu, mtu_cmd, linkup_mtu, last_peer, pc, stdin_watch, out,
          calls, ev>>

\* A step of the program is computed on a record of the globals, extended
\* with what the step has written and registered so far.
Cur ==
    [conn_state |-> conn_state, iochannel |-> iochannel, attrib |-> attrib,
     att_buflen |-> att_buflen, opt_dst |-> opt_dst,
     opt_dst_type |-> opt_dst_type, opt_sec_level |-> opt_sec_level,
     opt_mtu |-> opt_mtu, nconn |-> nconn, chan_imtu |-> chan_imtu,
     out |-> <<>>, calls |-> <<>>, reg |-> <<>>,
     newconn |-> {}, newwatch |-> {}, quit |-> FALSE, aborted |-> FALSE]

\* the globals, as a step finds them
Globals ==
    [conn_state |-> conn_state, iochannel |-> iochannel, attrib |-> attrib,
     att_buflen |-> att_buflen, opt_dst |-> opt_dst,
     opt_dst_type |-> opt_dst_type, opt_sec_level |-> opt_sec_level,
     opt_mtu |-> opt_mtu, connecting |-> connecting, watchers |-> watchers,
     pending |-> pending, stdin_watch |-> stdin_watch,
     chan_imtu |-> chan_imtu, mtu_cmd |-> mtu_cmd, linkup_mtu |-> linkup_mtu,
     last_peer |-> last_peer]

Call(fn, s, n, d) == [fn |-> fn, s |-> s, n |-> n, d |-> d]

Emit(S, line) == [S EXCEPT !.out = Append(@, line)]

\* a library call; at: the number of lines the step had written before it
Do(S, call) ==
    [S EXCEPT !.calls = Append(@, [fn |-> call.fn, s |-> call.s, n |-> call.n,
                                   d |-> call.d, at |-> Len(S.out)])]

\* a GATT request that completes through callback cb of the GAttrib in use
Register(S, cb) ==
    [S EXCEPT !.reg = Append(@, [cb |-> cb, att |-> S.attrib])]

(***************************************************************************)
(* Status line and state changes.                                          *)
(***************************************************************************)
\* printf("%s") of a string pointer; glibc writes (null) for a null pointer
StrPtr(p) == IF p = <<>> THEN "(null)" ELSE Str(p[1])

\* cmd_status that writes the security level as a symbol
cmd_status_symbolic(S) ==
    LET head ==
            CASE S.conn_state = STATE_CONNECTING ->
                    <<send_sym("state", "tryconn"),
                      send_str("dst", StrPtr(S.opt_dst))>>
              [] S.conn_state = STATE_CONNECTED ->
                    <<send_sym("state", "conn"),
                      send_str("dst", StrPtr(S.opt_dst))>>
              [] OTHER -> <<send_sym("state", "disc")>>
    IN  Emit(S, resp_begin(rsp_STATUS) \o head
                    \o <<send_uint("mtu", S.opt_mtu),
                         send_sym("sec", Str(S.opt_sec_level))>>)

cmd_status(S) ==
    LET head ==
            CASE S.conn_state = STATE_CONNECTING ->
                    <<send_sym("state", "tryconn"),
                      send_str("dst", StrPtr(S.opt_dst))>>
              [] S.conn_state = STATE_CONNECTED ->
                    <<send_sym("state", "conn"),
                      send_str("dst", StrPtr(S.opt_dst))>>
              [] OTHER -> <<send_sym("state", "disc")>>
    IN  Emit(S, resp_begin(rsp_STATUS) \o head
                    \o <<send_uint("mtu", S.opt_mtu),
                         send_str("sec", Str(S.opt_sec_level))>>)

set_state(S, st) == cmd_status([S EXCEPT !.conn_state = st])

\* disconnect_io without its early return
disconnect_io_unguarded(S) ==
    LET S1 == Do(S, Call("g_attrib_unref", <<>>, <<S.attrib>>, <<>>))
        S2 == [S1 EXCEPT !.attrib = NULL, !.att_buflen = 0, !.opt_mtu = 0]
        S3 == Do(S2, Call("g_io_channel_shutdown", <<>>, <<S.iochannel>>, <<>>))
        S4 == [S3 EXCEPT !.iochannel = NULL]
    IN  set_state(S4, STATE_DISCONNECTED)

disconnect_io(S) ==
    IF S.conn_state = STATE_DISCONNECTED THEN S
    ELSE LET S1 == Do(S, Call("g_attrib_unref", <<>>, <<S.attrib>>, <<>>))
             S2 == [S1 EXCEPT !.attrib = NULL, !.att_buflen = 0, !.opt_mtu = 0]
             S3 == Do(S2, Call("g_io_channel_shutdown", <<>>,
                               <<S.iochannel>>, <<>>))
             S4 == [S3 EXCEPT !.iochannel = NULL]
         IN  set_state(S4, STATE_DISCONNECTED)

channel_watcher(S) == disconnect_io(S)

cmd_disconnect(S, argv) == disconnect_io(S)

cmd_exit(S, argv) == [S EXCEPT !.quit = TRUE]

cmd_help(S, argv) == cmd_status(S)

(***************************************************************************)
(* Connecting.                                                             *)
(***************************************************************************)
opt_psm == 0

\* the text of the GError gatt_connect sets, printed on a line of its own
gerr_message == "gerr->message"

\* cmd_connect that stores the address given before it looks at the state
cmd_connect_stores_first(S, argv, ok) ==
    LET S1 == IF Len(argv) > 1
              THEN [S EXCEPT !.opt_dst = <<argv[2]>>,
                             !.opt_dst_type =
                                 IF Len(argv) > 2 THEN argv[3]
                                 ELSE <<"p","u","b","l","i","c">>]
              ELSE S
    IN
      IF S.conn_state # STATE_DISCONNECTED THEN S1
      ELSE IF S1.opt_dst = <<>> THEN Emit(S1, resp_error(err_BAD_PARAM))
      ELSE
        LET ch == S1.nconn + 1
            S2 == set_state(S1, STATE_CONNECTING)
            S3 == Do([S2 EXCEPT !.nconn = ch,
                                !.chan_imtu = Append(@, S2.opt_mtu)],
                     Call("gatt_connect",
                          <<S2.opt_dst[1], S2.opt_dst_type, S2.opt_sec_level>>,
                          <<opt_psm, S2.opt_mtu>>, <<>>))
        IN
          IF ~ok THEN set_state(Emit([S3 EXCEPT !.iochannel = NULL],
                                     <<gerr_message>>),
                                STATE_DISCONNECTED)
          ELSE Do([S3 EXCEPT !.iochannel = ch, !.newconn = {ch},
                             !.newwatch = {ch}],
                  Call("g_io_add_watch", <<>>, <<ch>>, <<>>))

\* cmd_connect that returns early only when a connection is up
cmd_connect_reentrant(S, argv, ok) ==
    IF S.conn_state = STATE_CONNECTED THEN S
    ELSE
      LET S1 == IF Len(argv) > 1
                THEN [S EXCEPT !.opt_dst = <<argv[2]>>,
                               !.opt_dst_type =
                                   IF Len(argv) > 2 THEN argv[3]
                                   ELSE <<"p","u","b","l","i","c">>]
                ELSE S
      IN
        IF S1.opt_dst = <<>> THEN Emit(S1, resp_error(err_BAD_PARAM))
        ELSE
          LET ch == S1.nconn + 1
              S2 == set_state(S1, STATE_CONNECTING)
              S3 == Do([S2 EXCEPT !.nconn = ch,
                                  !.chan_imtu = Append(@, S2.opt_mtu)],
                       Call("gatt_connect",
                            <<S2.opt_dst[1], S2.opt_dst_type, S2.opt_sec_level>>,
                            <<opt_psm, S2.opt_mtu>>, <<>>))
          IN
            IF ~ok THEN set_state(Emit([S3 EXCEPT !.iochannel = NULL],
                                       <<gerr_message>>),
                                  STATE_DISCONNECTED)
            ELSE Do([S3 EXCEPT !.iochannel = ch, !.newconn = {ch},
                               !.newwatch = {ch}],
                    Call("g_io_add_watch", <<>>, <<ch>>, <<>>))

\* ok: whether gatt_connect returned a channel
cmd_connect(S, argv, ok) ==
    IF S.conn_state # STATE_DISCONNECTED THEN S
    ELSE
      LET S1 == IF Len(argv) > 1
                THEN [S EXCEPT !.opt_dst = <<argv[2]>>,
                               !.opt_dst_type =
                                   IF Len(argv) > 2 THEN argv[3]
                                   ELSE <<"p","u","b","l","i","c">>]
                ELSE S
      IN
        IF S1.opt_dst = <<>> THEN Emit(S1, resp_error(err_BAD_PARAM))
        ELSE
          LET ch == S1.nconn + 1
              S2 == set_state(S1, STATE_CONNECTING)
              S3 == Do([S2 EXCEPT !.nconn = ch,
                                  !.chan_imtu = Append(@, S2.opt_mtu)],
                       Call("gatt_connect",
                            <<S2.opt_dst[1], S2.opt_dst_type, S2.opt_sec_level>>,
                            <<opt_psm, S2.opt_mtu>>, <<>>))
          IN
            IF ~ok THEN set_state(Emit([S3 EXCEPT !.iochannel = NULL],
                                       <<gerr_message>>),
                                  STATE_DISCONNECTED)
            ELSE Do([S3 EXCEPT !.iochannel = ch, !.newconn = {ch},
                               !.newwatch = {ch}],
                    Call("g_io_add_watch", <<>>, <<ch>>, <<>>))

\* connect_cb that keeps the adapter's MTU on the fixed ATT channel too
connect_cb_any_cid(S, ch, err, gerr, mtu, cid) ==
    IF err THEN Emit(set_state(S, STATE_DISCONNECTED), resp_error(err_CONN_FAIL))
    ELSE
      LET mtu1 == IF gerr THEN ATT_DEFAULT_LE_MTU ELSE mtu
          S1 == [S EXCEPT !.opt_mtu = mtu1]
          S2 == Do([S1 EXCEPT !.attrib = ch, !.att_buflen = mtu1],
                   Call("g_attrib_new", <<>>, <<S.iochannel, mtu1>>, <<>>))
      IN  set_state(S2, STATE_CONNECTED)

\* connect_cb for the attempt on channel ch.  err: the link failed; gerr:
\* bt_io_get could not read the options; mtu, cid: what bt_io_get stored (when
\* gerr is set they are what the uninitialised locals happen to hold).
connect_cb(S, ch, err, gerr, mtu, cid) ==
    IF err THEN Emit(set_state(S, STATE_DISCONNECTED), resp_error(err_CONN_FAIL))
    ELSE
      LET mtu1 == IF gerr THEN ATT_DEFAULT_LE_MTU ELSE mtu
          mtu2 == IF cid = ATT_CID THEN ATT_DEFAULT_LE_MTU ELSE mtu1
          S1 == [S EXCEPT !.opt_mtu = mtu2]
          S2 == Do([S1 EXCEPT !.attrib = ch, !.att_buflen = mtu2],
                   Call("g_attrib_new", <<>>, <<S.iochannel, mtu2>>, <<>>))
      IN  set_state(S2, STATE_CONNECTED)

(***************************************************************************)
(* GATT commands.                                                          *)
(***************************************************************************)
\* g_attrib_set_mtu(attrib, mtu): refuses an MTU below the default
g_attrib_set_mtu(att, mtu) == att # NULL /\ mtu >= ATT_DEFAULT_LE_MTU

\* status: the ATT status; decoded: dec_mtu_resp succeeded; mtu: the MTU the
\* peer answered
exchange_mtu_cb(S, status, decoded, mtu) ==
    IF status # 0 THEN Emit(S, resp_error(err_COMM_ERR))
    ELSE IF ~decoded THEN Emit(S, resp_error(err_PROTO_ERR))
    ELSE LET m == ToUint16(MIN(mtu, S.opt_mtu))
         IN  IF g_attrib_set_mtu(S.attrib, m)
             THEN cmd_status(Do([S EXCEPT !.opt_mtu = m, !.att_buflen = m],
                                Call("g_attrib_set_mtu", <<>>, <<S.attrib, m>>, <<>>)))
             ELSE Emit(S, resp_error(err_COMM_ERR))

\* cmd_mtu without the test that refuses a second exchange
cmd_mtu_repeatable(S, argv) ==
    IF S.conn_state # STATE_CONNECTED THEN Emit(S, resp_error(err_BAD_STATE))
    ELSE IF Len(argv) < 2 THEN Emit(S, resp_error(err_BAD_PARAM))
    ELSE LET S1 == [S EXCEPT !.opt_mtu = strtoll16(argv[2]).val]
         IN  IF S1.opt_mtu < ATT_DEFAULT_LE_MTU
             THEN Emit(S1, resp_error(err_BAD_PARAM))
             ELSE Register(Do(S1, Call("gatt_exchange_mtu", <<>>,
                                       <<S1.attrib, S1.opt_mtu>>, <<>>)),
                           "exchange_mtu_cb")

\* cmd_mtu that looks at the stored MTU before it counts its arguments
cmd_mtu_markfirst(S, argv) ==
    IF S.conn_state # STATE_CONNECTED THEN Emit(S, resp_error(err_BAD_STATE))
    ELSE IF S.opt_mtu # 0 THEN Emit(S, resp_error(err_BAD_STATE))
    ELSE IF Len(argv) < 2 THEN Emit(S, resp_error(err_BAD_PARAM))
    ELSE LET S1 == [S EXCEPT !.opt_mtu = strtoll16(argv[2]).val]
         IN  IF S1.opt_mtu < ATT_DEFAULT_LE_MTU
             THEN Emit(S1, resp_error(err_BAD_PARAM))
             ELSE Register(Do(S1, Call("gatt_exchange_mtu", <<>>,
                                       <<S1.attrib, S1.opt_mtu>>, <<>>)),
                           "exchange_mtu_cb")

cmd_mtu(S, argv) ==
    IF S.conn_state # STATE_CONNECTED THEN Emit(S, resp_error(err_BAD_STATE))
    ELSE IF Len(argv) < 2 THEN Emit(S, resp_error(err_BAD_PARAM))
    ELSE IF S.opt_mtu # 0 THEN Emit(S, resp_error(err_BAD_STATE))
    ELSE LET S1 == [S EXCEPT !.opt_mtu = strtoll16(argv[2]).val]
         IN  IF S1.opt_mtu < ATT_DEFAULT_LE_MTU
             THEN Emit(S1, resp_error(err_BAD_PARAM))
             ELSE Register(Do(S1, Call("gatt_exchange_mtu", <<>>,
                                       <<S1.attrib, S1.opt_mtu>>, <<>>)),
                           "exchange_mtu_cb")

\* decoded: dec_write_resp or dec_exec_write_resp succeeded
char_write_req_cb(S, status, decoded) ==
    IF status # 0 THEN Emit(S, resp_error(err_COMM_ERR))
    ELSE IF ~decoded THEN Emit(S, resp_error(err_PROTO_ERR))
    ELSE Emit(S, resp_begin(rsp_WRITE))

\* cmd_char_write_common that acknowledges at once with or without a callback
cmd_char_write_common_acked(S, argv, with_response) ==
    IF S.conn_state # STATE_CONNECTED THEN Emit(S, resp_error(err_BAD_STATE))
    ELSE IF Len(argv) < 3 THEN Emit(S, resp_error(err_BAD_PARAM))
    ELSE LET handle == strtohandle(argv[2])
             value == gatt_attr_data_from_string(argv[3])
             S1 == Do(S, Call("gatt_write_char", <<>>,
                              <<S.attrib, handle, Len(value)>>, value))
         IN  IF handle <= 0 THEN Emit(S, resp_error(err_BAD_PARAM))
             ELSE IF Len(value) = 0 THEN Emit(S, resp_error(err_BAD_PARAM))
             ELSE IF with_response
                  THEN Emit(Register(S1, "char_write_req_cb"),
                            resp_begin(rsp_WRITE))
             ELSE Emit(S1, resp_begin(rsp_WRITE))

cmd_char_write_common(S, argv, with_response) ==
    IF S.conn_state # STATE_CONNECTED THEN Emit(S, resp_error(err_BAD_STATE))
    ELSE IF Len(argv) < 3 THEN Emit(S, resp_error(err_BAD_PARAM))
    ELSE LET handle == strtohandle(argv[2])
             value == gatt_attr_data_from_string(argv[3])
             S1 == Do(S, Call("gatt_write_char", <<>>,
                              <<S.attrib, handle, Len(value)>>, value))
         IN  IF handle <= 0 THEN Emit(S, resp_error(err_BAD_PARAM))
             ELSE IF Len(value) = 0 THEN Emit(S, resp_error(err_BAD_PARAM))
             ELSE IF with_response THEN Register(S1, "char_write_req_cb")
             ELSE Emit(S1, resp_begin(rsp_WRITE))

cmd_char_write(S, argv) == cmd_char_write_common(S, argv, FALSE)

cmd_char_write_rsp(S, argv) == cmd_char_write_common(S, argv, TRUE)

\* char_read_cb that returns without a response when the decoding fails
char_read_cb_silent(S, status, decoded, value) ==
    IF status # 0 THEN Emit(S, resp_error(err_COMM_ERR))
    ELSE IF ~decoded THEN S
    ELSE Emit(S, resp_begin(rsp_READ) \o <<send_data(value)>>)

\* decoded: dec_read_resp returned a length >= 0; value: the bytes decoded
char_read_cb(S, status, decoded, value) ==
    IF status # 0 THEN Emit(S, resp_error(err_COMM_ERR))
    ELSE IF ~decoded THEN Emit(S, resp_error(err_COMM_ERR))
    ELSE Emit(S, resp_begin(rsp_READ) \o <<send_data(value)>>)

\* cmd_read_hnd that counts its arguments before it looks at the state
cmd_read_hnd_argfirst(S, argv) ==
    IF Len(argv) < 2 THEN Emit(S, resp_error(err_BAD_PARAM))
    ELSE IF S.conn_state # STATE_CONNECTED THEN Emit(S, resp_error(err_BAD_STATE))
    ELSE LET handle == strtohandle(argv[2])
         IN  IF handle < 0 THEN Emit(S, resp_error(err_BAD_PARAM))
             ELSE Register(Do(S, Call("gatt_read_char", <<>>,
                                      <<S.attrib, handle>>, <<>>)),
                           "char_read_cb")

cmd_read_hnd(S, argv) ==
    IF S.conn_state # STATE_CONNECTED THEN Emit(S, resp_error(err_BAD_STATE))
    ELSE IF Len(argv) < 2 THEN Emit(S, resp_error(err_BAD_PARAM))
    ELSE LET handle == strtohandle(argv[2])
         IN  IF handle < 0 THEN Emit(S, resp_error(err_BAD_PARAM))
             ELSE Register(Do(S, Call("gatt_read_char", <<>>,
                                      <<S.attrib, handle>>, <<>>)),
                           "char_read_cb")

(***************************************************************************)
(* Discovery.                                                              *)
(***************************************************************************)
RECURSIVE DescFields(_)
DescFields(l) ==
    IF l = <<>> THEN <<>>
    ELSE <<send_uint("hnd", l[1].handle), send_str("uuid", Str(l[1].uuid))>>
             \o DescFields(Tail(l))

char_desc_cb(S, status, descriptors) ==
    IF status # 0 THEN Emit(S, resp_error(err_COMM_ERR))
    ELSE Emit(S, resp_begin(rsp_DESCRIPTORS) \o DescFields(descriptors))

RECURSIVE CharFields(_)
CharFields(l) ==
    IF l = <<>> THEN <<>>
    ELSE <<send_uint("hnd", l[1].handle), send_uint("props", l[1].properties),
           send_uint("vhnd", l[1].value_handle), send_str("uuid", Str(l[1].uuid))>>
             \o CharFields(Tail(l))

char_cb(S, status, characteristics) ==
    IF status # 0 THEN Emit(S, resp_error(err_COMM_ERR))
    ELSE Emit(S, resp_begin(rsp_DISCOVERY) \o CharFields(characteristics))

RECURSIVE RangeFields(_)
RangeFields(l) ==
    IF l = <<>> THEN <<>>
    ELSE <<send_uint("hstart", l[1].start), send_uint("hend", l[1].end)>>
             \o RangeFields(Tail(l))

primary_by_uuid_cb(S, status, ranges) ==
    IF status # 0 THEN Emit(S, resp_error(err_COMM_ERR))
    ELSE Emit(S, resp_begin(rsp_DISCOVERY) \o RangeFields(ranges))

RECURSIVE PrimaryFields(_)
PrimaryFields(l) ==
    IF l = <<>> THEN <<>>
    ELSE <<send_uint("hstart", l[1].start), send_uint("hend", l[1].end),
           send_str("uuid", Str(l[1].uuid))>>
             \o PrimaryFields(Tail(l))

primary_all_cb(S, status, services) ==
    IF status # 0 THEN Emit(S, resp_error(err_COMM_ERR))
    ELSE Emit(S, resp_begin(rsp_DISCOVERY) \o PrimaryFields(services))

cmd_char_desc(S, argv) ==
    IF S.conn_state # STATE_CONNECTED THEN Emit(S, resp_error(err_BAD_STATE))
    ELSE LET start == IF Len(argv) > 1 THEN strtohandle(argv[2]) ELSE 1
             end == IF Len(argv) > 2 THEN strtohandle(argv[3]) ELSE 65535
         IN  IF start < 0 THEN Emit(S, resp_error(err_BAD_PARAM))
             ELSE IF end < 0 THEN Emit(S, resp_error(err_BAD_PARAM))
             ELSE Register(Do(S, Call("gatt_discover_desc", <<>>,
                                      <<S.attrib, start, end>>, <<>>)),
                           "char_desc_cb")

cmd_char(S, argv) ==
    IF S.conn_state # STATE_CONNECTED THEN Emit(S, resp_error(err_BAD_STATE))
    ELSE LET start == IF Len(argv) > 1 THEN strtohandle(argv[2]) ELSE 1
             end == IF Len(argv) > 2 THEN strtohandle(argv[3]) ELSE 65535
         IN  IF start < 0 THEN Emit(S, resp_error(err_BAD_PARAM))
             ELSE IF end < 0 THEN Emit(S, resp_error(err_BAD_PARAM))
             ELSE IF Len(argv) > 3 /\ ~bt_string_to_uuid_ok(argv[4])
                  THEN Emit(S, resp_error(err_BAD_PARAM))
             ELSE Register(Do(S, Call("gatt_discover_char",
                                      IF Len(argv) > 3 THEN <<argv[4]>> ELSE <<>>,
                                      <<S.attrib, start, end>>, <<>>)),
                           "char_cb")

cmd_primary(S, argv) ==
    IF S.conn_state # STATE_CONNECTED THEN Emit(S, resp_error(err_BAD_STATE))
    ELSE IF Len(argv) = 1
         THEN Register(Do(S, Call("gatt_discover_primary", <<>>,
                                  <<S.attrib>>, <<>>)),
                       "primary_all_cb")
    ELSE IF ~bt_string_to_uuid_ok(argv[2])
         THEN Emit(S, resp_error(err_BAD_PARAM))
    ELSE Register(Do(S, Call("gatt_discover_primary", <<argv[2]>>,
                             <<S.attrib>>, <<>>)),
                  "primary_by_uuid_cb")

(***************************************************************************)
(* Security level.                                                         *)
(***************************************************************************)
\* set_ok: whether bt_io_set succeeded
cmd_sec_level(S, argv, set_ok) ==
    IF Len(argv) < 2 THEN Emit(S, resp_error(err_BAD_PARAM))
    ELSE IF ~(\/ strcasecmp_eq(argv[2], <<"m","e","d","i","u","m">>)
              \/ strcasecmp_eq(argv[2], <<"h","i","g","h">>)
              \/ strcasecmp_eq(argv[2], <<"l","o","w">>))
         THEN Emit(S, resp_error(err_BAD_PARAM))
    ELSE LET S1 == [S EXCEPT !.opt_sec_level = argv[2]]
             S2 == Do(S1, Call("bt_io_set", <<argv[2]>>, <<S1.iochannel>>, <<>>))
         IN  IF S1.conn_state # STATE_CONNECTED THEN S1
             ELSE IF ~set_ok THEN Emit(S2, resp_error(err_COMM_ERR))
             ELSE cmd_status(S2)

(***************************************************************************)
(* Unsolicited PDUs.  A PDU is the sequence of its bytes; pdu[0] of the    *)
(* source is pdu[1] here.                                                  *)
(***************************************************************************)
get_le16(pdu, i) == pdu[i + 1] + 256 * pdu[i + 2]

\* a failed assert() ends the process
AssertFailed(S) == [S EXCEPT !.aborted = TRUE]

\* enc_confirmation(opdu, plen): the length encoded, 0 when it does not fit
enc_confirmation(plen) == IF plen < 1 THEN 0 ELSE 1

\* enc_error_resp(opcode, handle, status, opdu, plen): the PDU encoded, empty
\* when its five bytes do not fit
enc_error_resp(opcode, handle, status, plen) ==
    IF plen < 5 THEN <<>>
    ELSE <<ATT_OP_ERROR, opcode, handle % 256, handle \div 256, status>>

g_attrib_send(S, opdu) ==
    Do(S, Call("g_attrib_send", <<>>, <<S.attrib, Len(opdu)>>, opdu))

\* events_handler that treats an indication like a notification
events_handler_unconfirmed(S, pdu) ==
    IF pdu[1] \notin {ATT_OP_HANDLE_NOTIFY, ATT_OP_HANDLE_IND} THEN S
    ELSE IF ~(Len(pdu) >= 3) THEN AssertFailed(S)
    ELSE Emit(S, resp_begin(IF pdu[1] = ATT_OP_HANDLE_NOTIFY
                            THEN rsp_NOTIFY ELSE rsp_IND)
                   \o <<send_uint("hnd", get_le16(pdu, 1)),
                        send_data(SubSeq(pdu, 4, Len(pdu)))>>)

events_handler(S, pdu) ==
    IF pdu[1] \notin {ATT_OP_HANDLE_NOTIFY, ATT_OP_HANDLE_IND} THEN S
    ELSE IF ~(Len(pdu) >= 3) THEN AssertFailed(S)
    ELSE
      LET handle == get_le16(pdu, 1)
          S1 == Emit(S, resp_begin(IF pdu[1] = ATT_OP_HANDLE_NOTIFY
                                   THEN rsp_NOTIFY ELSE rsp_IND)
                          \o <<send_uint("hnd", handle),
                               send_data(SubSeq(pdu, 4, Len(pdu)))>>)
          olen == enc_confirmation(S.att_buflen)
      IN  IF pdu[1] = ATT_OP_HANDLE_NOTIFY THEN S1
          ELSE IF olen > 0 THEN g_attrib_send(S1, <<ATT_OP_HANDLE_CNF>>)
          ELSE S1

\* the reply every server-role request gets: an error response, sent when it
\* could be encoded
NotSupported(S, opcode, handle) ==
    LET opdu == enc_error_resp(opcode, handle, ATT_ECODE_REQ_NOT_SUPP,
                               S.att_buflen)
    IN  IF Len(opdu) > 0 THEN g_attrib_send(S, opdu) ELSE S

gatts_find_info_req(S, pdu) ==
    IF ~(Len(pdu) = 5) THEN AssertFailed(S)
    ELSE NotSupported(S, pdu[1], get_le16(pdu, 1))

gatts_find_by_type_req(S, pdu) ==
    IF ~(Len(pdu) >= 7) THEN AssertFailed(S)
    ELSE NotSupported(S, pdu[1], get_le16(pdu, 1))

gatts_read_by_type_req(S, pdu) ==
    IF ~(Len(pdu) = 7 \/ Len(pdu) = 21) THEN AssertFailed(S)
    ELSE NotSupported(S, pdu[1], get_le16(pdu, 1))

\* gatts_read_req that, like gatts_write_cmd, sends nothing back
gatts_read_req_dropped(S, pdu) ==
    IF ~(Len(pdu) = 3) THEN AssertFailed(S) ELSE S

gatts_read_req(S, pdu) ==
    IF ~(Len(pdu) = 3) THEN AssertFailed(S)
    ELSE NotSupported(S, pdu[1], get_le16(pdu, 1))

gatts_read_blob_req(S, pdu) ==
    IF ~(Len(pdu) = 5) THEN AssertFailed(S)
    ELSE NotSupported(S, pdu[1], get_le16(pdu, 1))

gatts_read_multi_req(S, pdu) ==
    IF ~(Len(pdu) >= 5) THEN AssertFailed(S)
    ELSE NotSupported(S, pdu[1], get_le16(pdu, 1))

gatts_read_by_group_req(S, pdu) ==
    IF ~(Len(pdu) >= 7) THEN AssertFailed(S)
    ELSE NotSupported(S, pdu[1], get_le16(pdu, 1))

gatts_write_req(S, pdu) ==
    IF ~(Len(pdu) >= 3) THEN AssertFailed(S)
    ELSE NotSupported(S, pdu[1], get_le16(pdu, 1))

gatts_write_cmd(S, pdu) ==
    IF ~(Len(pdu) >= 3) THEN AssertFailed(S) ELSE S

gatts_signed_write_cmd(S, pdu) ==
    IF ~(Len(pdu) >= 15) THEN AssertFailed(S) ELSE S

gatts_prep_write_req(S, pdu) ==
    IF ~(Len(pdu) >= 5) THEN AssertFailed(S)
    ELSE NotSupported(S, pdu[1], get_le16(pdu, 1))

gatts_exec_write_req(S, pdu) ==
    IF ~(Len(pdu) = 5) THEN AssertFailed(S)
    ELSE NotSupported(S, pdu[1], 0)

\* the opcodes connect_cb registers a handler for
RegisteredOpcodes ==
    {ATT_OP_HANDLE_NOTIFY, ATT_OP_HANDLE_IND, ATT_OP_FIND_INFO_REQ,
     ATT_OP_FIND_BY_TYPE_REQ, ATT_OP_READ_BY_TYPE_REQ, ATT_OP_READ_REQ,
     ATT_OP_READ_BLOB_REQ, ATT_OP_READ_MULTI_REQ, ATT_OP_READ_BY_GROUP_REQ,
     ATT_OP_WRITE_REQ, ATT_OP_WRITE_CMD, ATT_OP_SIGNED_WRITE_CMD,
     ATT_OP_PREP_WRITE_REQ, ATT_OP_EXEC_WRITE_REQ}

\* the handler g_attrib_register attached to the opcode of pdu
DispatchPdu(S, pdu) ==
    CASE pdu[1] \in {ATT_OP_HANDLE_NOTIFY, ATT_OP_HANDLE_IND} ->
            events_handler(S, pdu)
      [] pdu[1] = ATT_OP_FIND_INFO_REQ -> gatts_find_info_req(S, pdu)
      [] pdu[1] = ATT_OP_FIND_BY_TYPE_REQ -> gatts_find_by_type_req(S, pdu)
      [] pdu[1] = ATT_OP_READ_BY_TYPE_REQ -> gatts_read_by_type_req(S, pdu)
      [] pdu[1] = ATT_OP_READ_REQ -> gatts_read_req(S, pdu)
      [] pdu[1] = ATT_OP_READ_BLOB_REQ -> gatts_read_blob_req(S, pdu)
      [] pdu[1] = ATT_OP_READ_MULTI_REQ -> gatts_read_multi_req(S, pdu)
      [] pdu[1] = ATT_OP_READ_BY_GROUP_REQ -> gatts_read_by_group_req(S, pdu)
      [] pdu[1] = ATT_OP_WRITE_REQ -> gatts_write_req(S, pdu)
      [] pdu[1] = ATT_OP_WRITE_CMD -> gatts_write_cmd(S, pdu)
      [] pdu[1] = ATT_OP_SIGNED_WRITE_CMD -> gatts_signed_write_cmd(S, pdu)
      [] pdu[1] = ATT_OP_PREP_WRITE_REQ -> gatts_prep_write_req(S, pdu)
      [] pdu[1] = ATT_OP_EXEC_WRITE_REQ -> gatts_exec_write_req(S, pdu)
      [] OTHER -> S

(***************************************************************************)
(* Command table and dispatch.                                             *)
(***************************************************************************)
kw_help == <<"h","e","l","p">>
kw_stat == <<"s","t","a","t">>
kw_quit == <<"q","u","i","t">>
kw_conn == <<"c","o","n","n">>
kw_disc == <<"d","i","s","c">>
kw_svcs == <<"s","v","c","s">>
kw_char == <<"c","h","a","r">>
kw_desc == <<"d","e","s","c">>
kw_rd == <<"r","d">>
kw_wrr == <<"w","r","r">>
kw_wr == <<"w","r">>
kw_secu == <<"s","e","c","u">>
kw_mtu == <<"m","t","u">>

\* the keywords of commands[], in table order
commands ==
    <<kw_help, kw_stat, kw_quit, kw_conn, kw_disc, kw_svcs, kw_char, kw_desc,
      kw_rd, kw_wrr, kw_wr, kw_secu, kw_mtu>>

\* the index of the first entry of commands[] that matches, 0 when none does
Lookup(word) ==
    LET hits == {i \in 1..Len(commands) : strcasecmp_eq(commands[i], word)}
    IN  IF hits = {} THEN 0 ELSE CHOOSE i \in hits : \A j \in hits : i <= j

\* parse_line on a line already split into its tokens (<<>> is a blank line).
\* link_ok and set_ok are the outcomes of gatt_connect and bt_io_set, should
\* the command call them.
parse_line(S, argv, link_ok, set_ok) ==
    IF argv = <<>> THEN S
    ELSE LET i == Lookup(argv[1])
         IN  CASE i = 0 -> Emit(S, resp_error(err_BAD_CMD))
               [] i = 1 -> cmd_help(S, argv)
               [] i = 2 -> cmd_status(S)
               [] i = 3 -> cmd_exit(S, argv)
               [] i = 4 -> cmd_connect(S, argv, link_ok)
               [] i = 5 -> cmd_disconnect(S, argv)
               [] i = 6 -> cmd_primary(S, argv)
               [] i = 7 -> cmd_char(S, argv)
               [] i = 8 -> cmd_char_desc(S, argv)
               [] i = 9 -> cmd_read_hnd(S, argv)
               [] i = 10 -> cmd_char_write_rsp(S, argv)
               [] i = 11 -> cmd_char_write(S, argv)
               [] i = 12 -> cmd_sec_level(S, argv, set_ok)
               [] i = 13 -> cmd_mtu(S, argv)

(***************************************************************************)
(* Inputs explored.                                                        *)
(***************************************************************************)
Addr1 == <<"A","A",":","B","B",":","C","C",":","D","D",":","E","E",":","F","F">>
Addr2 == <<"1","1",":","2","2",":","3","3",":","4","4",":","5","5",":","6","6">>
t_public == <<"p","u","b","l","i","c">>
t_random == <<"r","a","n","d","o","m">>
t_low == <<"l","o","w">>
t_HIGH == <<"H","I","G","H">>
t_zz == <<"z","z">>
t_0 == <<"0">>
t_1 == <<"1">>
t_neg1 == <<"-","1">>
t_2a == <<"0","0","2","a">>
t_ffff == <<"f","f","f","f">>
t_0100 == <<"0","1","0","0">>
t_1800 == <<"1","8","0","0">>
t_30 == <<"3","0">>
t_10 == <<"1","0">>

CmdLines ==
    { <<kw_help>>, <<kw_stat>>, <<kw_quit>>,
      <<<<"b","o","g","u","s">>>>,
      <<kw_conn>>, <<kw_conn, Addr1, t_public>>, <<kw_conn, Addr2, t_random>>,
      <<kw_disc>>,
      <<kw_svcs>>, <<kw_svcs, t_1800>>, <<kw_svcs, t_zz>>,
      <<kw_char>>, <<kw_char, t_1, t_ffff, t_1800>>, <<kw_char, t_neg1>>,
      <<kw_char, t_1, t_ffff, t_zz>>,
      <<kw_desc>>, <<kw_desc, t_1, t_ffff>>, <<kw_desc, t_1, t_zz>>,
      <<<<"R","D">>, t_2a>>,
      <<kw_rd>>, <<kw_rd, t_2a>>, <<kw_rd, t_0>>, <<kw_rd, t_neg1>>,
      <<kw_rd, t_zz>>,
      <<kw_wr>>, <<kw_wr, t_2a, t_0100>>, <<kw_wr, t_0, t_0100>>,
      <<kw_wr, t_2a, t_1>>,
      <<kw_wrr, t_2a>>, <<kw_wrr, t_2a, t_0100>>, <<kw_wrr, t_0, t_0100>>,
      <<kw_wrr, t_neg1, t_0100>>, <<kw_wrr, t_zz, t_0100>>,
      <<kw_secu>>, <<kw_secu, t_HIGH>>, <<kw_secu, t_zz>>,
      <<kw_mtu>>, <<kw_mtu, t_30>>, <<kw_mtu, t_10>>, <<kw_mtu, t_zz>> }

\* the outcomes of gatt_connect and of bt_io_set to explore with a line: both
\* for the one command that can make the call, success for the others
LinkOutcomes ==
    [argv \in CmdLines |->
        IF strcasecmp_eq(argv[1], kw_conn) THEN BOOLEAN ELSE {TRUE}]

SetOutcomes ==
    [argv \in CmdLines |->
        IF strcasecmp_eq(argv[1], kw_secu) THEN BOOLEAN ELSE {TRUE}]

\* the MTU and the channel id bt_io_get may report
AdapterMtus == {0, ATT_DEFAULT_LE_MTU, 48}
\* the fixed ATT channel, or a dynamically allocated one
Cids == {ATT_CID, 64}

\* the MTU a peer may answer to an exchange
PeerMtus == {ATT_DEFAULT_LE_MTU, 100}

Values == {<<>>, <<1, 171>>}

\* a PDU of len bytes with opcode op: handle 0x002a, then 1, 2, ...
MkPdu(op, len) ==
    [i \in 1..len |-> IF i = 1 THEN op ELSE IF i = 2 THEN 42
                      ELSE IF i = 3 THEN 0 ELSE i - 3]

\* a length the handler of the opcode accepts
GoodLen(op) ==
    CASE op \in {ATT_OP_READ_REQ, ATT_OP_WRITE_REQ, ATT_OP_WRITE_CMD} -> 3
      [] op \in {ATT_OP_HANDLE_NOTIFY, ATT_OP_HANDLE_IND, ATT_OP_FIND_INFO_REQ,
                 ATT_OP_READ_BLOB_REQ, ATT_OP_READ_MULTI_REQ,
                 ATT_OP_PREP_WRITE_REQ, ATT_OP_EXEC_WRITE_REQ} -> 5
      [] op = ATT_OP_SIGNED_WRITE_CMD -> 15
      [] OTHER -> 7

\* per opcode a PDU of a good length and one cut short after a byte or two,
\* and a PDU whose opcode has no handler registered
Pdus ==
    {MkPdu(op, GoodLen(op)) : op \in RegisteredOpcodes}
        \cup {MkPdu(op, 2) : op \in RegisteredOpcodes}
        \cup {MkPdu(ATT_OP_HANDLE_IND, 3), MkPdu(ATT_OP_READ_REQ, 5),
              MkPdu(ATT_OP_ERROR, 5)}

(***************************************************************************)
(* Steps of the event loop.                                                *)
(***************************************************************************)
RemoveAt(s, i) ==
    IF i = 0 THEN s ELSE SubSeq(s, 1, i - 1) \o SubSeq(s, i + 1, Len(s))

\* The result R of a step becomes the next state.  conn_done and watch_done
\* are the channels whose connect_cb and channel_watcher the step consumed,
\* pend_done the index of the GATT callback it consumed (0: none).
CommitStep(Result, op, argv, n, conn_done, watch_done, pend_done) ==
  \E R \in {Result} :
    /\ R.nconn <= MaxConnects
    /\ Len(RemoveAt(pending, pend_done)) + Len(R.reg) <= MaxPending
    /\ conn_state' = R.conn_state
    /\ iochannel' = R.iochannel
    /\ attrib' = R.attrib
    /\ att_buflen' = R.att_buflen
    /\ opt_dst' = R.opt_dst
    /\ opt_dst_type' = R.opt_dst_type
    /\ opt_sec_level' = R.opt_sec_level
    /\ opt_mtu' = R.opt_mtu
    /\ nconn' = R.nconn
    /\ chan_imtu' = R.chan_imtu
    /\ mtu_cmd' =
          IF R.conn_state = STATE_DISCONNECTED THEN "none"
          ELSE IF \E k \in 1..Len(R.calls) : R.calls[k].fn = "gatt_exchange_mtu"
               THEN "accepted"
          ELSE IF op = "connect_cb" /\ mtu_cmd = "accepted" THEN "relinked"
          ELSE mtu_cmd
    /\ linkup_mtu' =
          IF R.conn_state = STATE_DISCONNECTED THEN 0
          ELSE IF op = "connect_cb" /\ n[2] = 0 THEN R.opt_mtu
          ELSE linkup_mtu
    /\ last_peer' =
          IF /\ op = "parse_line"
             /\ Len(argv) > 1
             /\ strcasecmp_eq(argv[1], kw_conn)
             /\ conn_state = STATE_DISCONNECTED
          THEN <<argv[2], IF Len(argv) > 2 THEN argv[3] ELSE t_public>>
          ELSE last_peer
    /\ connecting' = (connecting \ conn_done) \cup R.newconn
    /\ watchers' = (watchers \ watch_done) \cup R.newwatch
    /\ pending' = RemoveAt(pending, pend_done) \o R.reg
    /\ pc' = IF R.aborted THEN "aborted" ELSE IF R.quit THEN "quit"
             ELSE "dispatched"
    /\ out' = R.out
    /\ calls' = R.calls
    /\ ev' = [op |-> op, argv |-> argv, n |-> n, pre |-> Globals]

Commit(R, op, argv, n) == CommitStep(R, op, argv, n, {}, {}, 0)

Bit(b) == IF b THEN 1 ELSE 0

\* prompt_read with a line read from stdin
PromptLine ==
    /\ pc = "poll"
    /\ stdin_watch
    /\ \E argv \in CmdLines :
          \E link_ok \in LinkOutcomes[argv], set_ok \in SetOutcomes[argv] :
             Commit(parse_line(Cur, argv, link_ok, set_ok), "parse_line",
                    argv, <<Bit(link_ok), Bit(set_ok)>>)
    /\ UNCHANGED stdin_watch

\* prompt_read when g_io_channel_read_line fails or returns no line
PromptReadFail ==
    /\ pc = "poll"
    /\ stdin_watch
    /\ Commit([Cur EXCEPT !.quit = TRUE], "prompt_read_fail", <<>>, <<>>)
    /\ stdin_watch' = FALSE

\* prompt_read called with G_IO_HUP, G_IO_ERR or G_IO_NVAL
PromptHup ==
    /\ pc = "poll"
    /\ stdin_watch
    /\ Commit(Cur, "prompt_read_hup", <<>>, <<>>)
    /\ stdin_watch' = FALSE

\* the completion of a link attempt
ConnectCb ==
    /\ pc = "poll"
    /\ \E ch \in connecting, err \in BOOLEAN, gerr \in BOOLEAN,
          mtu \in AdapterMtus, cid \in Cids :
          /\ err => (~gerr /\ cid = ATT_CID)
          /\ (err \/ gerr) => mtu = 0
          /\ CommitStep(connect_cb(Cur, ch, err, gerr, mtu, cid), "connect_cb",
                        <<>>, <<ch, Bit(err), Bit(gerr), mtu, cid>>, {ch}, {}, 0)
    /\ UNCHANGED stdin_watch

\* G_IO_HUP on a channel that has a channel_watcher
ChannelWatcher ==
    /\ pc = "poll"
    /\ \E ch \in watchers :
          CommitStep(channel_watcher(Cur), "channel_watcher", <<>>, <<ch>>,
                     {}, {ch}, 0)
    /\ UNCHANGED stdin_watch

Descriptors == {<<>>, <<[handle |-> 42, uuid |-> <<"2","9","0","2">>]>>}

Characteristics ==
    {<<>>, <<[handle |-> 41, properties |-> 18, value_handle |-> 42,
              uuid |-> <<"2","a","3","7">>]>>}

Ranges == {<<>>, <<[start |-> 1, end |-> 11]>>}

Services == {<<>>, <<[start |-> 1, end |-> 11, uuid |-> t_1800]>>}

\* the completion of the i-th outstanding GATT request
GattCb ==
    /\ pc = "poll"
    /\ \E i \in 1..Len(pending), status \in {0, 1} :
          LET cb == pending[i].cb
              Done(R, n) == CommitStep(R, cb, <<>>, <<pending[i].att, status>> \o n,
                                       {}, {}, i)
          IN  CASE cb = "exchange_mtu_cb" ->
                      \E decoded \in BOOLEAN, mtu \in PeerMtus :
                         /\ (status # 0 \/ ~decoded) => mtu = ATT_DEFAULT_LE_MTU
                         /\ status # 0 => decoded
                         /\ Done(exchange_mtu_cb(Cur, status, decoded, mtu),
                                 <<Bit(decoded), mtu>>)
                [] cb = "char_write_req_cb" ->
                      \E decoded \in BOOLEAN :
                         /\ status # 0 => decoded
                         /\ Done(char_write_req_cb(Cur, status, decoded),
                                 <<Bit(decoded)>>)
                [] cb = "char_read_cb" ->
                      \E decoded \in BOOLEAN, value \in Values :
                         /\ (status # 0 \/ ~decoded) => value = <<>>
                         /\ status # 0 => decoded
                         /\ Done(char_read_cb(Cur, status, decoded, value),
                                 <<Bit(decoded)>> \o value)
                [] cb = "char_desc_cb" ->
                      \E l \in Descriptors :
                         /\ status # 0 => l = <<>>
                         /\ Done(char_desc_cb(Cur, status, l), <<Len(l)>>)
                [] cb = "char_cb" ->
                      \E l \in Characteristics :
                         /\ status # 0 => l = <<>>
                         /\ Done(char_cb(Cur, status, l), <<Len(l)>>)
                [] cb = "primary_by_uuid_cb" ->
                      \E l \in Ranges :
                         /\ status # 0 => l = <<>>
                         /\ Done(primary_by_uuid_cb(Cur, status, l), <<Len(l)>>)
                [] cb = "primary_all_cb" ->
                      \E l \in Services :
                         /\ status # 0 => l = <<>>
                         /\ Done(primary_all_cb(Cur, status, l), <<Len(l)>>)
    /\ UNCHANGED stdin_watch

\* a PDU from the peer for which connect_cb registered a handler
PduEvent ==
    /\ pc = "poll"
    /\ conn_state = STATE_CONNECTED
    /\ attrib # NULL
    /\ iochannel # NULL
    /\ \E pdu \in Pdus : Commit(DispatchPdu(Cur, pdu), "pdu", <<>>, pdu)
    /\ UNCHANGED stdin_watch

\* main after g_main_loop_run returns: the unconditional disconnect, exit
MainExit ==
    /\ pc = "quit"
    /\ ev.op # "main_exit"
    /\ \E R \in {cmd_disconnect(Cur, <<>>)} :
          Commit([R EXCEPT !.quit = TRUE], "main_exit", <<>>, <<>>)
    /\ UNCHANGED stdin_watch

\* main after the unconditional disconnect: the process has exited
Exit ==
    /\ pc = "quit"
    /\ ev.op = "main_exit"
    /\ pc' = "done"
    /\ UNCHANGED <<conn_state, iochannel, attrib, att_buflen, opt_dst,
                   opt_dst_type, opt_sec_level, opt_mtu, connecting, watchers,
                   pending, nconn, chan_imtu, mtu_cmd, linkup_mtu, last_peer,
                   stdin_watch, out, calls, ev>>

\* the handler has returned: g_main_loop_run waits for the next event.  What
\* the step wrote has been flushed; the record of the step is dropped.
Iterate ==
    /\ pc = "dispatched"
    /\ pc' = "poll"
    /\ out' = <<>>
    /\ calls' = <<>>
    /\ ev' = [op |-> "idle", argv |-> <<>>, n |-> <<>>, pre |-> Globals]
    /\ UNCHANGED <<conn_state, iochannel, attrib, att_buflen, opt_dst,
                   opt_dst_type, opt_sec_level, opt_mtu, connecting, watchers,
                   pending, nconn, chan_imtu, mtu_cmd, linkup_mtu, last_peer,
                   stdin_watch>>

Init ==
    /\ conn_state = STATE_DISCONNECTED
    /\ iochannel = NULL
    /\ attrib = NULL
    /\ att_buflen = 0
    /\ opt_dst = <<>>
    /\ opt_dst_type = t_public
    /\ opt_sec_level = t_low
    /\ opt_mtu = 0
    /\ connecting = {}
    /\ watchers = {}
    /\ pending = <<>>
    /\ nconn = 0
    /\ chan_imtu = <<>>
    /\ mtu_cmd = "none"
    /\ linkup_mtu = 0
    /\ last_peer = <<>>
    /\ pc = "poll"
    /\ stdin_watch = TRUE
    /\ out = <<>>
    /\ calls = <<>>
    /\ ev = [op |-> "idle", argv |-> <<>>, n |-> <<>>, pre |-> Globals]

Next ==
    \/ PromptLine
    \/ PromptReadFail
    \/ PromptHup
    \/ ConnectCb
    \/ ChannelWatcher
    \/ GattCb
    \/ PduEvent
    \/ MainExit
    \/ Exit
    \/ Iterate

Spec == Init /\ [][Next]_vars

(***************************************************************************)
(* Properties.  They are stated on the state a step leaves behind: ev says *)
(* which handler ran on which input and ev.pre what the globals were, out   *)
(* and calls what the handler wrote and called.                            *)
(***************************************************************************)
\* the index in commands[] of the keyword of the line just dispatched
Keyword == IF ev.op = "parse_line" THEN Lookup(ev.argv[1]) ELSE 0 - 1

\* the indices of svcs, char, desc, rd, wrr, wr and mtu
ConnectedOnly == {6, 7, 8, 9, 10, 11, 13}

GattCallbacks ==
    {"exchange_mtu_cb", "char_write_req_cb", "char_read_cb", "char_desc_cb",
     "char_cb", "primary_by_uuid_cb", "primary_all_cb"}

\* a line that starts a response (rsp=$...), as opposed to free text
IsResponse(line) ==
    line[1] \in {resp_begin(r)[1] :
                    r \in {rsp_ERROR, rsp_STATUS, rsp_NOTIFY, rsp_IND,
                           rsp_DISCOVERY, rsp_DESCRIPTORS, rsp_READ, rsp_WRITE}}

NumResp(o) == Cardinality({k \in 1..Len(o) : IsResponse(o[k])})

NumLines(o, line) == Cardinality({k \in 1..Len(o) : o[k] = line})

IsStat(line) == line[1] = resp_begin(rsp_STATUS)[1]

\* the step registered no completion callback
NoneRegistered == pending = ev.pre.pending

\* the step registered exactly one completion callback
OneRegistered ==
    /\ Len(pending) = Len(ev.pre.pending) + 1
    /\ SubSeq(pending, 1, Len(ev.pre.pending)) = ev.pre.pending
    /\ pending[Len(pending)].cb \in GattCallbacks

SecLevelOk(argv) ==
    /\ Len(argv) > 1
    /\ \E l \in {<<"l","o","w">>, <<"m","e","d","i","u","m">>, <<"h","i","g","h">>} :
          strcasecmp_eq(argv[2], l)

\* C1: a Connected-only command (svcs, char, desc, rd, wr, wrr, mtu) dispatched
\* while the state is Disconnected or Connecting writes exactly one line, the
\* error badstate, whatever its arguments; it makes no library call and
\* registers no callback.
C1_OutOfStateIsBadState ==
    (Keyword \in ConnectedOnly /\ ev.pre.conn_state # STATE_CONNECTED)
        => /\ out = <<resp_error(err_BAD_STATE)>>
           /\ calls = <<>>
           /\ NoneRegistered

\* a wr with handle 0 (a bad parameter when connected) while Connecting
C1_Witness ==
    /\ Keyword = 11
    /\ ev.argv = <<kw_wr, t_0, t_0100>>
    /\ ev.pre.conn_state = STATE_CONNECTING
    /\ out = <<resp_error(err_BAD_STATE)>>

\* C2 as claimed: every dispatched command line writes exactly one response
\* and registers no callback, or writes none and registers exactly one; every
\* completion callback writes exactly one response.
C2_AsClaimed ==
    /\ ev.op = "parse_line" =>
          \/ NumResp(out) = 1 /\ NoneRegistered
          \/ NumResp(out) = 0 /\ OneRegistered
    /\ ev.op \in GattCallbacks => NumResp(out) = 1

\* C2 (amended): help, stat, an unknown keyword and the Connected-only
\* commands write exactly one response and register no callback, or write
\* none and register exactly one, and every completion callback writes
\* exactly one response and registers none.  quit writes nothing; disc
\* writes nothing when already Disconnected and one stat line otherwise; secu
\* with a valid level writes nothing outside Connected and one line otherwise,
\* and one badparam without a valid level; conn writes nothing when not
\* Disconnected, one badparam when no address is stored, and otherwise one
\* stat line, followed by a second stat line when the transport refuses at
\* once and by the line(s) of the link completion otherwise.
C2_ResponsesPerCommand ==
  LET k == Keyword IN
    /\ k \in ({0, 1, 2} \cup ConnectedOnly) =>
          \/ Len(out) = 1 /\ NumResp(out) = 1 /\ NoneRegistered
          \/ out = <<>> /\ OneRegistered
    /\ ev.op \in GattCallbacks =>
          /\ Len(out) = 1 /\ NumResp(out) = 1
          /\ Len(pending) = Len(ev.pre.pending) - 1
    /\ k = 3 => out = <<>> /\ NoneRegistered
    /\ k = 5 =>
          /\ NoneRegistered
          /\ IF ev.pre.conn_state = STATE_DISCONNECTED THEN out = <<>>
             ELSE Len(out) = 1 /\ IsStat(out[1])
    /\ k = 12 =>
          /\ NoneRegistered
          /\ IF ~SecLevelOk(ev.argv) THEN out = <<resp_error(err_BAD_PARAM)>>
             ELSE IF ev.pre.conn_state # STATE_CONNECTED THEN out = <<>>
             ELSE Len(out) = 1 /\ NumResp(out) = 1
    /\ k = 4 =>
          /\ NoneRegistered
          /\ IF ev.pre.conn_state # STATE_DISCONNECTED
             THEN out = <<>> /\ connecting = ev.pre.connecting
             ELSE IF opt_dst = <<>>
             THEN out = <<resp_error(err_BAD_PARAM)>>
                  /\ connecting = ev.pre.connecting
             ELSE IF ev.n[1] = 1
             THEN /\ Len(out) = 1 /\ IsStat(out[1])
                  /\ connecting = ev.pre.connecting \cup {nconn}
             ELSE /\ NumResp(out) = 2
                  /\ IsStat(out[1]) /\ IsStat(out[Len(out)])
                  /\ connecting = ev.pre.connecting
    /\ ev.op = "connect_cb" =>
          IF ev.n[2] = 1
          THEN Len(out) = 2 /\ IsStat(out[1])
               /\ out[2] = resp_error(err_CONN_FAIL)
          ELSE Len(out) = 1 /\ IsStat(out[1])

\* a read completes with a response that cannot be decoded: one error line
C2_Witness ==
    /\ ev.op = "char_read_cb"
    /\ ev.n[2] = 0
    /\ ev.n[3] = 0
    /\ out = <<resp_error(err_COMM_ERR)>>

\* C3: a conn dispatched while the state is Connecting or Connected changes
\* nothing (state, peer identity, channel, GATT handle, pending callbacks),
\* writes nothing and makes no library call, whatever its arguments.
C3_ConnIsNoOp ==
    (Keyword = 4 /\ ev.pre.conn_state # STATE_DISCONNECTED)
        => /\ Globals = ev.pre
           /\ nconn = Len(ev.pre.chan_imtu)
           /\ out = <<>>
           /\ calls = <<>>

\* a conn naming another peer while the first attempt is still in progress
C3_Witness ==
    /\ Keyword = 4
    /\ ev.pre.conn_state = STATE_CONNECTING
    /\ ev.pre.opt_dst = <<Addr1>>
    /\ ev.argv = <<kw_conn, Addr2, t_random>>
    /\ opt_dst = <<Addr1>>

\* C4: disconnect_io reached while the state is already Disconnected (by
\* disc, by the disconnect main makes after the loop, or by a hang-up of a
\* channel) writes nothing, changes no global and releases nothing.
C4_DisconnectIdempotent ==
    ((Keyword = 5 \/ ev.op \in {"main_exit", "channel_watcher"})
            /\ ev.pre.conn_state = STATE_DISCONNECTED)
        => /\ out = <<>>
           /\ calls = <<>>
           /\ [Globals EXCEPT !.watchers = ev.pre.watchers] = ev.pre

\* a disc in the state Disconnected after a link attempt has ended
C4_Witness ==
    /\ Keyword = 5
    /\ ev.pre.conn_state = STATE_DISCONNECTED
    /\ nconn > 0
    /\ out = <<>>

\* C5: when the link of an accepted conn fails, at once (gatt_connect returns
\* no channel) or through connect_cb, the state is Disconnected afterwards
\* and exactly one error connfail has been written.
C5_ConnectFailureReported ==
    /\ (Keyword = 4 /\ ev.pre.conn_state = STATE_DISCONNECTED
            /\ calls # <<>> /\ ev.n[1] = 0)
          => /\ conn_state = STATE_DISCONNECTED
             /\ NumLines(out, resp_error(err_CONN_FAIL)) = 1
    /\ (ev.op = "connect_cb" /\ ev.n[2] = 1)
          => /\ conn_state = STATE_DISCONNECTED
             /\ NumLines(out, resp_error(err_CONN_FAIL)) = 1

AdapterMtu == IF ev.n[3] = 1 THEN ATT_DEFAULT_LE_MTU ELSE ev.n[4]

RequestedMtu == ev.pre.chan_imtu[ev.n[1]]

LinkUp == ev.op = "connect_cb" /\ ev.n[2] = 0

LengthAccepted(pdu) ==
    LET op == pdu[1]
        len == Len(pdu)
    IN  CASE op \in {ATT_OP_FIND_INFO_REQ, ATT_OP_READ_BLOB_REQ,
                     ATT_OP_EXEC_WRITE_REQ} -> len = 5
          [] op = ATT_OP_READ_REQ -> len = 3
          [] op = ATT_OP_READ_BY_TYPE_REQ -> len \in {7, 21}
          [] op \in {ATT_OP_FIND_BY_TYPE_REQ, ATT_OP_READ_BY_GROUP_REQ} -> len >= 7
          [] op \in {ATT_OP_READ_MULTI_REQ, ATT_OP_PREP_WRITE_REQ} -> len >= 5
          [] op = ATT_OP_SIGNED_WRITE_CMD -> len >= 15
          [] OTHER -> len >= 3

Indication == ev.op = "pdu" /\ ev.n[1] = ATT_OP_HANDLE_IND

IndLine(pdu) ==
    resp_begin(rsp_IND) \o <<send_uint("hnd", get_le16(pdu, 1)),
                             send_data(SubSeq(pdu, 4, Len(pdu)))>>

\* the k-th call of the step sends opdu on the GATT handle in use
Sends(k, opdu) ==
    /\ calls[k].fn = "g_attrib_send"
    /\ calls[k].n = <<ev.pre.attrib, Len(opdu)>>
    /\ calls[k].d = opdu

\* C8 as claimed: every indication received while connected (a PDU with the
\* opcode of an indication and room for its handle) gives exactly one ind
\* line and then exactly one confirmation sent, whether or not the
\* confirmation can be encoded, and the engine goes on.
C8_AsClaimed ==
    (Indication /\ LengthAccepted(ev.n))
        => /\ out = <<IndLine(ev.n)>>
           /\ Len(calls) = 1
           /\ Sends(1, <<ATT_OP_HANDLE_CNF>>)
           /\ calls[1].at = 1
           /\ pc = "dispatched"

\* C8 (amended): an indication of at least 3 bytes gives exactly one ind line
\* with its handle and payload and then, when the confirmation fits the
\* buffer of the GATT handle, exactly one confirmation sent, and no
\* confirmation when it does not fit; no other line is written, no global
\* changes and the engine goes on.  An indication shorter than 3 bytes fails
\* the assertion of the handler: the process ends with nothing written or sent.
C8_IndicationConfirmed ==
    Indication
        => IF LengthAccepted(ev.n)
           THEN /\ out = <<IndLine(ev.n)>>
                /\ IF ev.pre.att_buflen >= 1
                   THEN /\ Len(calls) = 1
                        /\ Sends(1, <<ATT_OP_HANDLE_CNF>>)
                        /\ calls[1].at = 1
                   ELSE calls = <<>>
                /\ Globals = ev.pre
                /\ pc = "dispatched"
           ELSE out = <<>> /\ calls = <<>> /\ pc = "aborted"

\* an indication of handle 0x002a with two bytes of payload, confirmed
C8_Witness ==
    /\ Indication
    /\ Len(ev.n) = 5
    /\ out = <<<<"rsp=$ind", "hnd=h2A", "d=b0102">>>>
    /\ Len(calls) = 1
    /\ calls[1].d = <<ATT_OP_HANDLE_CNF>>

ServerRequests ==
    {ATT_OP_FIND_INFO_REQ, ATT_OP_FIND_BY_TYPE_REQ, ATT_OP_READ_BY_TYPE_REQ,
     ATT_OP_READ_REQ, ATT_OP_READ_BLOB_REQ, ATT_OP_READ_MULTI_REQ,
     ATT_OP_READ_BY_GROUP_REQ, ATT_OP_WRITE_REQ, ATT_OP_PREP_WRITE_REQ,
     ATT_OP_EXEC_WRITE_REQ}

ServerCommands == {ATT_OP_WRITE_CMD, ATT_OP_SIGNED_WRITE_CMD}

\* the step sent exactly one error response 'request not supported' that
\* names the opcode of the PDU received
RefusedOnce ==
    /\ Len(calls) = 1
    /\ calls[1].fn = "g_attrib_send"
    /\ Len(calls[1].d) = 5
    /\ calls[1].d[1] = ATT_OP_ERROR
    /\ calls[1].d[2] = ev.n[1]
    /\ calls[1].d[5] = ATT_ECODE_REQ_NOT_SUPP

\* C9 as claimed: every server-role PDU received while connected (of a
\* length that fits its opcode), the write command and the signed write
\* command included, is answered with exactly one error response 'request
\* not supported'.
C9_AsClaimed ==
    (ev.op = "pdu" /\ ev.n[1] \in ServerRequests \cup ServerCommands
            /\ LengthAccepted(ev.n))
        => RefusedOnce

\* C9 (amended): a server-role request (find-info, find-by-type,
\* read-by-type, read, read-blob, read-multi, read-by-group, write request,
\* prepare-write, execute-write) of a length its handler accepts is answered
\* with exactly one error response 'request not supported' when the five
\* bytes of the response fit the buffer of the GATT handle, and with nothing
\* when they do not; a write command or signed write command is never
\* answered; a PDU of a length the assertion of its handler rejects ends the
\* process unanswered.  None of them writes a line or changes a global.
C9_RequestsRefused ==
    (ev.op = "pdu" /\ ev.n[1] \in ServerRequests \cup ServerCommands)
        => /\ out = <<>>
           /\ Globals = ev.pre
           /\ IF ~LengthAccepted(ev.n) THEN calls = <<>> /\ pc = "aborted"
              ELSE /\ pc = "dispatched"
                   /\ IF ev.n[1] \in ServerRequests /\ ev.pre.att_buflen >= 5
                      THEN RefusedOnce /\ Sends(1, calls[1].d)
                      ELSE calls = <<>>

\* a read request for handle 0x002a, refused
C9_Witness ==
    /\ ev.op = "pdu"
    /\ ev.n = <<ATT_OP_READ_REQ, 42, 0>>
    /\ Len(calls) = 1
    /\ calls[1].d = <<ATT_OP_ERROR, ATT_OP_READ_REQ, 42, 0, ATT_ECODE_REQ_NOT_SUPP>>

\* C10: when the input is gone (end of stream, read error, or a hang-up or
\* error condition on the input channel) the engine leaves its loop and exits
\* Disconnected: the loop never waits for events without its input, and the
\* process ends in the state Disconnected.
C10_InputGoneQuits ==
    /\ pc = "poll" => stdin_watch
    /\ pc = "done" => conn_state = STATE_DISCONNECTED

\* a handle argument that is not a hexadecimal number, or is negative, or zero
BadHandle(tok) ==
    \/ tok = <<>>
    \/ \E i \in 1..Len(tok) : ~IsHexChar(tok[i])
    \/ HexRun(tok, 1, 0).val = 0

\* C11: in the state Connected, rd, wr and wrr with a handle argument that is
\* not valid hexadecimal, is negative or is zero write exactly one badparam
\* error and issue no read or write.
C11_BadHandleRejected ==
    LET k == Keyword
    IN  (/\ k \in {9, 10, 11}
         /\ ev.pre.conn_state = STATE_CONNECTED
         /\ Len(ev.argv) >= (IF k = 9 THEN 2 ELSE 3)
         /\ BadHandle(ev.argv[2]))
            => /\ out = <<resp_error(err_BAD_PARAM)>>
               /\ calls = <<>>
               /\ NoneRegistered

\* the step called gatt_connect exactly once, for the peer <<address, type>>
ConnectsTo(peer) ==
    /\ Len(calls) >= 1
    /\ calls[1].fn = "gatt_connect"
    /\ calls[1].s[1] = peer[1]
    /\ calls[1].s[2] = peer[2]
    /\ \A k \in 2..Len(calls) : calls[k].fn # "gatt_connect"
    /\ nconn = Len(ev.pre.chan_imtu) + 1

\* C12: a conn dispatched in the state Disconnected with an address stores
\* that address (and the type given, public when none is) and attempts the
\* link to it; without an address it attempts the link to the identity the
\* last such conn supplied, whatever happened in between; and when no
\* identity was ever supplied it writes exactly one badparam, starts no
\* attempt and leaves the state Disconnected.
C12_PeerIdentityRetained ==
    (Keyword = 4 /\ ev.pre.conn_state = STATE_DISCONNECTED)
        => /\ <<opt_dst, opt_dst_type>> =
                  (IF last_peer = <<>> THEN <<<<>>, t_public>>
                   ELSE <<<<last_peer[1]>>, last_peer[2]>>)
           /\ IF Len(ev.argv) > 1
              THEN /\ last_peer = <<ev.argv[2], IF Len(ev.argv) > 2
                                               THEN ev.argv[3] ELSE t_public>>
                   /\ ConnectsTo(last_peer)
              ELSE /\ last_peer = ev.pre.last_peer
                   /\ IF last_peer = <<>>
                      THEN /\ out = <<resp_error(err_BAD_PARAM)>>
                           /\ calls = <<>>
                           /\ conn_state = STATE_DISCONNECTED
                           /\ connecting = ev.pre.connecting
                           /\ nconn = Len(ev.pre.chan_imtu)
                      ELSE ConnectsTo(last_peer)

\* a conn without an address after the attempt to Addr2 has failed and
\* a conn naming Addr1 was ignored meanwhile: the link to Addr2 is attempted
C12_Witness ==
    /\ Keyword = 4
    /\ ev.argv = <<kw_conn>>
    /\ ev.pre.conn_state = STATE_DISCONNECTED
    /\ nconn = 2
    /\ ConnectsTo(<<Addr2, t_random>>)
    /\ conn_state = STATE_CONNECTING

\* a token made of hexadecimal digits only
AllHex(tok) == tok # <<>> /\ \A i \in 1..Len(tok) : IsHexChar(tok[i])

\* the arguments of a Connected-only command (keyword index k) are valid:
\* handles are positive hexadecimal numbers, a value is whole bytes in
\* hexadecimal, a UUID is one the library reads
ValidArgs(k, argv) ==
    CASE k = 9 -> Len(argv) >= 2 /\ ~BadHandle(argv[2])
      [] k \in {10, 11} ->
            /\ Len(argv) >= 3 /\ ~BadHandle(argv[2])
            /\ AllHex(argv[3]) /\ Len(argv[3]) % 2 = 0
      [] k = 6 -> Len(argv) = 1 \/ bt_string_to_uuid_ok(argv[2])
      [] k = 7 ->
            /\ \A i \in 2..MIN(Len(argv), 3) : ~BadHandle(argv[i])
            /\ Len(argv) > 3 => bt_string_to_uuid_ok(argv[4])
      [] k = 8 -> \A i \in 2..MIN(Len(argv), 3) : ~BadHandle(argv[i])
      [] OTHER -> FALSE

\* the completion callback of the round-trip command with keyword index k
CallbackOf(k, argv) ==
    CASE k = 6 -> IF Len(argv) = 1 THEN "primary_all_cb"
                  ELSE "primary_by_uuid_cb"
      [] k = 7 -> "char_cb"
      [] k = 8 -> "char_desc_cb"
      [] k = 9 -> "char_read_cb"
      [] k = 10 -> "char_write_req_cb"
      [] OTHER -> "none"

\* C13: in the state Connected with valid arguments, wr makes one write
\* call, registers no completion callback and writes exactly the line
\* rsp=$wr, after the call; rd, wrr, svcs, char and desc make one call,
\* register exactly their completion callback and write nothing; and a
\* completion callback, when it fires, writes exactly one response line.
C13_WriteAcknowledgedAtOnce ==
    LET k == Keyword
    IN  /\ (/\ k = 11
            /\ ev.pre.conn_state = STATE_CONNECTED
            /\ ValidArgs(k, ev.argv))
               => /\ Len(calls) = 1
                  /\ calls[1].fn = "gatt_write_char"
                  /\ calls[1].at = 0
                  /\ NoneRegistered
                  /\ out = <<resp_begin(rsp_WRITE)>>
        /\ (/\ k \in {6, 7, 8, 9, 10}
            /\ ev.pre.conn_state = STATE_CONNECTED
            /\ ValidArgs(k, ev.argv))
               => /\ Len(calls) = 1
                  /\ OneRegistered
                  /\ pending[Len(pending)].cb = CallbackOf(k, ev.argv)
                  /\ out = <<>>
        /\ ev.op \in GattCallbacks
               => /\ Len(out) = 1
                  /\ NumResp(out) = 1
                  /\ NoneRegistered \/ Len(pending) < Len(ev.pre.pending)

\* wr 002a 0100 in the state Connected: the write is issued and rsp=$wr written
C13_Witness ==
    /\ Keyword = 11
    /\ ev.argv = <<kw_wr, t_2a, t_0100>>
    /\ ev.pre.conn_state = STATE_CONNECTED
    /\ out = <<resp_begin(rsp_WRITE)>>
    /\ Len(calls) = 1
    /\ calls[1].n[2] = 42
    /\ calls[1].d = <<1, 0>>

\* conn AA:BB:CC:DD:EE:FF public dispatched in the state Disconnected
ConnAccepted ==
    /\ ev.op = "parse_line"
    /\ ev.argv = <<kw_conn, Addr1, t_public>>
    /\ ev.pre.conn_state = STATE_DISCONNECTED

\* a link-up for the peer AA:BB:CC:DD:EE:FF, security level low, where the
\* adapter reports an MTU of 23
LinkUp23 ==
    /\ LinkUp
    /\ ev.n[3] = 0
    /\ ev.n[4] = ATT_DEFAULT_LE_MTU
    /\ ev.pre.opt_dst = <<Addr1>>
    /\ ev.pre.opt_sec_level = t_low

\* C14 as claimed: the status line of the accepted conn has exactly the
\* fields state=$tryconn and dst='AA:BB:CC:DD:EE:FF, and that of the link-up
\* with adapter MTU 23 exactly state=$conn, dst='AA:BB:CC:DD:EE:FF, mtu=h17
\* and sec=$low.
C14_AsClaimed ==
    /\ ConnAccepted =>
          out[1] = <<"rsp=$stat", "state=$tryconn", "dst='AA:BB:CC:DD:EE:FF">>
    /\ LinkUp23 =>
          out[1] = <<"rsp=$stat", "state=$conn", "dst='AA:BB:CC:DD:EE:FF",
                     "mtu=h17", "sec=$low">>

\* C14 (amended): the status line of the accepted conn has exactly the fields
\* state=$tryconn, dst='AA:BB:CC:DD:EE:FF, mtu=h<the MTU value stored at that
\* time, in hexadecimal> and sec='<the stored security level>, in that order;
\* that of a link-up where the adapter reports MTU 23 has exactly
\* state=$conn, dst='AA:BB:CC:DD:EE:FF, mtu=h17 and sec='low (for the stored
\* level low), in that order; the security level is written as a string.
C14_StatusLineContents ==
    /\ ConnAccepted =>
          /\ Len(out) >= 1
          /\ out[1] = <<"rsp=$stat", "state=$tryconn", "dst='AA:BB:CC:DD:EE:FF",
                        "mtu=h" \o FormatHexUnsigned(ev.pre.opt_mtu),
                        "sec='" \o Str(ev.pre.opt_sec_level)>>
    /\ LinkUp23 =>
          out = << <<"rsp=$stat", "state=$conn", "dst='AA:BB:CC:DD:EE:FF",
                     "mtu=h17", "sec='low">> >>

\* the link-up with adapter MTU 23 on a dynamic channel that follows
\* conn AA:BB:CC:DD:EE:FF public
C14_Witness ==
    /\ LinkUp23
    /\ ev.n[5] # ATT_CID
    /\ ev.pre.conn_state = STATE_CONNECTING
    /\ nconn = 1
    /\ conn_state = STATE_CONNECTED
    /\ out[1][4] = "mtu=h17"
    /\ out[1][5] = "sec='low"

\* the completion callback of a request made on a connection that has since
\* been torn down: the GAttrib it was registered with is no longer in use
LateCallback == ev.op \in GattCallbacks /\ ev.n[1] # ev.pre.attrib

\* C15: the completion callback of a round-trip operation that fires after
\* its connection was torn down, in the state Disconnected or during a later
\* connection, writes no line and changes neither the connection state, the
\* negotiated MTU nor the GATT handle.
C15_LateCallbackIsNoOp ==
    LateCallback
        => /\ out = <<>>
           /\ calls = <<>>
           /\ conn_state = ev.pre.conn_state
           /\ opt_mtu = ev.pre.opt_mtu
           /\ attrib = ev.pre.attrib

\* C16: a step brings the connection state to Connected only when it is a
\* successful link completion delivered in the state Connecting, and a step
\* that starts in Disconnected and ends elsewhere is a conn that ends in
\* Connecting; whenever the completion callbacks are delivered.
C16_StateChangesGuarded ==
    /\ (conn_state = STATE_CONNECTED /\ ev.pre.conn_state # STATE_CONNECTED)
          => /\ LinkUp
             /\ ev.pre.conn_state = STATE_CONNECTING
    /\ (ev.pre.conn_state = STATE_DISCONNECTED
        /\ conn_state # STATE_DISCONNECTED)
          => /\ Keyword = 4
             /\ conn_state = STATE_CONNECTING

\* the step is a state transition: an accepted conn, a link completion
\* (link-up or link failure), or any step that changed the connection state
Transition ==
    \/ conn_state # ev.pre.conn_state
    \/ ev.op = "connect_cb"
    \/ Keyword = 4 /\ ev.pre.conn_state = STATE_DISCONNECTED /\ opt_dst # <<>>

\* C17: every state transition writes a status line, and the last response
\* line it writes is a status line: no other response line, in particular
\* no error line, follows it.
C17_StatusLineLast ==
    Transition =>
        LET resp == {k \in 1..Len(out) : IsResponse(out[k])}
        IN  /\ resp # {}
            /\ \A k \in resp : (\A j \in resp : j <= k) => IsStat(out[k])

\* C18: whenever the connection state is Disconnected the negotiated MTU is
\* unset (0).
C18_DisconnectedMtuUnset ==
    conn_state = STATE_DISCONNECTED => opt_mtu = 0

\* the one line a command wrote is a badparam, badstate or badcmd error
Rejected ==
    /\ ev.op = "parse_line"
    /\ \E e \in {err_BAD_PARAM, err_BAD_STATE, err_BAD_CMD} :
          out = <<resp_error(e)>>

\* C19: a command answered with badparam, badstate or badcmd has had no side
\* effect: the connection state, the stored peer identity, the stored
\* security level and the negotiated MTU are as before the command, and no
\* library call was made.
C19_RejectedHasNoEffect ==
    Rejected
        => /\ conn_state = ev.pre.conn_state
           /\ opt_dst = ev.pre.opt_dst
           /\ opt_dst_type = ev.pre.opt_dst_type
           /\ opt_sec_level = ev.pre.opt_sec_level
           /\ opt_mtu = ev.pre.opt_mtu
           /\ calls = <<>>

\* an unsolicited PDU whose opcode has no handler or whose length does not
\* fit its opcode
Malformed(pdu) == pdu[1] \notin RegisteredOpcodes \/ ~LengthAccepted(pdu)

\* C20: a malformed unsolicited PDU is dropped: no response line is written
\* for it, nothing is sent, the process goes on and the connection state is
\* unchanged.
C20_MalformedPduDropped ==
    (ev.op = "pdu" /\ Malformed(ev.n))
        => /\ NumResp(out) = 0
           /\ calls = <<>>
           /\ pc = "dispatched"
           /\ conn_state = ev.pre.conn_state

\* C21: the GATT handle and the transport channel are both present in the
\* state Connected and both absent in the state Disconnected, and the GATT
\* handle is absent in the state Connecting.
C21_ResourceInvariant ==
    /\ conn_state = STATE_CONNECTED => (attrib # NULL /\ iochannel # NULL)
    /\ conn_state = STATE_DISCONNECTED => (attrib = NULL /\ iochannel = NULL)
    /\ conn_state = STATE_CONNECTING => attrib = NULL

\* the hang-up watcher of a channel that is no longer the one in use fires
LateHangup == ev.op = "channel_watcher" /\ ev.n[1] # ev.pre.iochannel

\* C22: a hang-up watcher registered for the channel of an earlier attempt
\* that fires after a new conn was accepted changes neither the state, the
\* GATT handle, the transport channel nor the negotiated MTU.
C22_LateHangupHarmless ==
    (LateHangup /\ ev.pre.conn_state # STATE_DISCONNECTED)
        => /\ conn_state = ev.pre.conn_state
           /\ attrib = ev.pre.attrib
           /\ iochannel = ev.pre.iochannel
           /\ opt_mtu = ev.pre.opt_mtu

=============================================================================
